---- MODULE Spec2Model ----
(***************************************************************************)
(* Model of the sat-core worker (src/tasks/app.py, src/tasks/bluebase.py). *)
(*                                                                         *)
(*   Spec       run_tool: command planning, the spawned shell running the  *)
(*              planned stages, the ResourceMonitor sampler thread, the    *)
(*              stop/join of the sampler, the outcome and the Celery       *)
(*              success/failure signal handlers that call _notify.         *)
(*   SpecClean  clean_align_file applied to a cluster-tool output file.    *)
(*   SpecStat   BlueBase.get_statistics (align_to_statistics and the      *)
(*              Statistic built from it) applied to an alignment.          *)
(*   SpecBucket the same engine on one-column alignments of many rows.     *)
(*                                                                         *)
(* Text is modelled as sequences of one-character strings.                 *)
(***************************************************************************)
EXTENDS Integers, Sequences, FiniteSets, TLC

VARIABLES
    \* ---- run_tool (Spec) ----
    tool,            \* the `tool` argument of run_tool
    inputExists,     \* whether input_path exists when run_tool is invoked
    pc,              \* position of the task's main path
    procState,       \* the spawned shell: "none", "running", "exited"
    stageRc,         \* exit codes of the plan's stages executed so far
    returnCode,      \* exit status of the shell (-1 while not exited)
    log,             \* log file: sequence of chunks [src, len]; src 0 = header
    spawnCount,      \* number of subprocess.Popen calls
    monitoring,      \* ResourceMonitor.monitoring
    monPc,           \* position of the sampler thread ("none" = not started)
    lastRead,        \* outcome of the sampler's latest usage read
    memory_samples,  \* number of entries of ResourceMonitor.memory_samples
    cpu_samples,     \* number of entries of ResourceMonitor.cpu_samples
    stopCalls,       \* number of stop_monitoring calls
    summary,         \* what the latest stop_monitoring call returned
    pending,         \* exception in flight inside run_tool's try block
    loggedLen,       \* length of the log excerpt given to logger.error
    outcome,         \* what left run_tool: return value or raised error
    payloads,        \* payloads handed to _post_webhook
    notifyRaised,    \* _notify raised instead of posting
    \* ---- clean_align_file (SpecClean) ----
    alignFile,       \* records of the alignment file: [id, seq]
    cleanPc,         \* "idle", "ready", "done"
    cleanInput,      \* the file as it was before clean_align_file
    max_length,      \* value returned by clean_align_file (-1 before)
    \* ---- align_to_statistics (SpecStat) ----
    fasta_list,      \* the alignment rows as parsed
    statPc,          \* "idle", "scan", "columns", "blue", "done" (of
                     \* align_to_statistics), "returned", "error"
    st               \* the engine's accumulated results

runVars == <<tool, inputExists, pc, procState, stageRc, returnCode, log,
             spawnCount, monitoring, monPc, lastRead, memory_samples,
             cpu_samples, stopCalls, summary, pending, loggedLen, outcome,
             payloads, notifyRaised>>
cleanVars == <<alignFile, cleanPc, cleanInput, max_length>>
statVars == <<fasta_list, statPc, st>>
vars == <<runVars, cleanVars, statVars>>

\* ------------------------------------------------------------------------
\* Bounds of the model
\* ------------------------------------------------------------------------
MaxSamples == 2
HeaderLen == 40
\* clean_align_file: records in the file, and characters of sequence in it
MaxCleanRecs == 2
MaxCleanChars == 2
\* align_to_statistics: cells (rows x columns) of the alignment matrix
MaxCells == 4
\* align_to_statistics: rows of the one-column alignments of SpecBucket
BucketRows == 100

\* Sizes a stage's standard-error output may have, and exit codes of a stage.
StderrLens == {0, 1200}
ExitCodes == {0, 1, 2}

\* ------------------------------------------------------------------------
\* Helpers
\* ------------------------------------------------------------------------
Min(a, b) == IF a < b THEN a ELSE b
Max(a, b) == IF a > b THEN a ELSE b

RECURSIVE SumLen(_)
SumLen(chunks) ==
    IF chunks = <<>> THEN 0 ELSE Head(chunks).len + SumLen(Tail(chunks))

RECURSIVE SumSeq(_)
SumSeq(ns) == IF ns = <<>> THEN 0 ELSE Head(ns) + SumSeq(Tail(ns))

\* Python's None, for the variables that otherwise hold a record.
NoneRec == [kind |-> "none"]

\* ------------------------------------------------------------------------
\* Idle values of the variable groups a specification does not use
\* ------------------------------------------------------------------------
RunIdle ==
    /\ tool = "mafft" /\ inputExists = TRUE /\ pc = "idle"
    /\ procState = "none" /\ stageRc = <<>> /\ returnCode = -1 /\ log = <<>>
    /\ spawnCount = 0 /\ monitoring = FALSE /\ monPc = "none"
    /\ lastRead = "none" /\ memory_samples = 0 /\ cpu_samples = 0
    /\ stopCalls = 0 /\ summary = NoneRec /\ pending = NoneRec /\ loggedLen = -1
    /\ outcome = NoneRec /\ payloads = <<>> /\ notifyRaised = FALSE

CleanIdle ==
    /\ alignFile = <<>> /\ cleanPc = "idle" /\ cleanInput = <<>>
    /\ max_length = -1

\* The engine's results before anything is computed.
StatZero ==
    [gap_seq_count |-> 0, gap_count |-> 0, gap_sumlength |-> 0,
     miss_front_list |-> <<>>, miss_end_list |-> <<>>, bp_color |-> <<>>,
     columns |-> <<>>, blue_base_count |-> <<>>, nomiss_base_count |-> 0,
     noblue_base_count |-> 0, error |-> "none", statistic |-> NoneRec]

StatIdle ==
    /\ fasta_list = <<>> /\ statPc = "idle" /\ st = StatZero

\* ------------------------------------------------------------------------
\* Command planner
\* ------------------------------------------------------------------------
\* class Tool(Enum)
ToolValues == {"mafft", "vsearch", "uclust"}
\* Values the `tool` argument is drawn from (one is no member of Tool).
ToolArgs == ToolValues \cup {"bogus"}

\* create_cmd: the plan as the list of commands the shell is given.
\* create_uclust_cmd joins three commands, the others return one.
create_cmd(t) ==
    CASE t = "mafft"   -> <<"mafft">>
      [] t = "vsearch" -> <<"vsearch --cluster_smallmem">>
      [] t = "uclust"  -> <<"uclust --input", "uclust --uc2fasta",
                            "uclust --staralign">>

\* A faulty variant of ChainContinues: the three commands joined with ";" instead of "&&".
ChainContinues_Semicolon(rc) == TRUE
\* create_uclust_cmd joins the commands with "&&": the shell runs the next
\* command only when the previous one exited 0.
ChainContinues(rc) == rc = 0

\* ------------------------------------------------------------------------
\* Statistic (the dataclass _notify receives on success)
\* ------------------------------------------------------------------------
\* @dataclass class Statistic: its attributes are its eleven fields.
Statistic ==
    [kind |-> "Statistic",
     attrs |-> {"total_seq", "gap_seq_count", "gap_count", "gap_frequency",
                "gap_sum_length", "gap_length", "sum_of_blue_bases",
                "no_blue_bases", "no_miss_bases", "blue_base_ratio",
                "blue_base_count"}]

\* logger.error("%s failed: %s", cmd, error_msg[:1000])
LogPrefixLen == 1000

\* ------------------------------------------------------------------------
\* run_tool: main path
\* ------------------------------------------------------------------------
InitRun ==
    /\ tool \in ToolArgs
    /\ inputExists \in BOOLEAN
    /\ pc = "start"
    /\ procState = "none" /\ stageRc = <<>> /\ returnCode = -1 /\ log = <<>>
    /\ spawnCount = 0 /\ monitoring = FALSE /\ monPc = "none"
    /\ lastRead = "none" /\ memory_samples = 0 /\ cpu_samples = 0
    /\ stopCalls = 0 /\ summary = NoneRec /\ pending = NoneRec /\ loggedLen = -1
    /\ outcome = NoneRec /\ payloads = <<>> /\ notifyRaised = FALSE

\* run_tool from its entry to the blocking process.wait(): Tool(tool.lower())
\* and create_cmd, the header written to the log file, Popen, and
\* ResourceMonitor(process).start_monitoring().
RunToolStart ==
    /\ pc = "start"
    /\ IF tool \notin ToolValues
       THEN /\ outcome' = [kind |-> "raise", type |-> "ValueError"]
            /\ pc' = "done"
            /\ UNCHANGED <<log, spawnCount, procState, monitoring, monPc>>
       ELSE /\ log' = <<[src |-> 0, len |-> HeaderLen]>>
            /\ spawnCount' = spawnCount + 1
            /\ procState' = "running"
            /\ monitoring' = TRUE
            /\ monPc' = "init"
            /\ pc' = "wait"
            /\ UNCHANGED outcome
    /\ UNCHANGED <<tool, inputExists, stageRc, returnCode, lastRead,
                   memory_samples, cpu_samples, stopCalls, summary, pending,
                   loggedLen, payloads, notifyRaised>>
    /\ UNCHANGED <<cleanVars, statVars>>

\* The shell runs the next command of the plan; the command writes n
\* characters to standard error (appended to the log) and exits with rc.
\* The shell exits with the status of the last command it ran.
StageRun(rc, n) ==
    /\ procState = "running"
    /\ LET k == Len(stageRc) + 1 IN
        /\ stageRc' = Append(stageRc, rc)
        /\ log' = Append(log, [src |-> k, len |-> n])
        /\ IF ChainContinues(rc) /\ k < Len(create_cmd(tool))
           THEN UNCHANGED <<procState, returnCode>>
           ELSE procState' = "exited" /\ returnCode' = rc
    /\ UNCHANGED <<tool, inputExists, pc, spawnCount, monitoring, monPc,
                   lastRead, memory_samples, cpu_samples, stopCalls, summary,
                   pending, loggedLen, outcome, payloads, notifyRaised>>
    /\ UNCHANGED <<cleanVars, statVars>>

\* stop_monitoring up to its join: the flag is cleared, then the caller
\* blocks in monitor_thread.join(timeout=1.0).
StopBegin ==
    /\ monitoring' = FALSE
    /\ stopCalls' = stopCalls + 1

\* stop_monitoring after the join: the ResourceUsage is computed from the
\* samples as they are at that moment.
StopSummary ==
    summary' = [kind |-> "ResourceUsage", mem |-> memory_samples,
                cpu |-> cpu_samples, threadDone |-> (monPc = "done"),
                empty |-> (memory_samples = 0 \/ cpu_samples = 0)]

\* process.wait() returns, and stop_monitoring is entered (line 231).
WaitReturns ==
    /\ pc = "wait"
    /\ procState = "exited"
    /\ StopBegin
    /\ pc' = "join1"
    /\ UNCHANGED <<tool, inputExists, procState, stageRc, returnCode, log,
                   spawnCount, monPc, lastRead, memory_samples, cpu_samples,
                   summary, pending, loggedLen, outcome, payloads,
                   notifyRaised>>
    /\ UNCHANGED <<cleanVars, statVars>>

\* join(timeout=1.0) returns when the sampler thread has ended, or when the
\* timeout has elapsed, which can happen wherever the thread is.
JoinTimeout == TRUE
JoinReturns == monPc = "done" \/ JoinTimeout

\* The first stop_monitoring returns; on a non-zero exit status the log is
\* read back, its prefix is logged and RuntimeError is raised inside the
\* try block, whose handler enters stop_monitoring again (line 245).
AfterFirstStop ==
    /\ pc = "join1"
    /\ JoinReturns
    /\ StopSummary
    /\ IF returnCode # 0
       THEN /\ loggedLen' = Min(SumLen(log), LogPrefixLen)
            /\ pending' = [kind |-> "raise", type |-> "RuntimeError",
                           rc |-> returnCode, cmd |-> create_cmd(tool),
                           logLen |-> SumLen(log),
                           logSrc |-> {log[i].src : i \in 1..Len(log)}]
            /\ StopBegin
            /\ pc' = "join2"
       ELSE /\ pc' = "post"
            /\ UNCHANGED <<loggedLen, pending, monitoring, stopCalls>>
    /\ UNCHANGED <<tool, inputExists, procState, stageRc, returnCode, log,
                   spawnCount, monPc, lastRead, memory_samples, cpu_samples,
                   outcome, payloads, notifyRaised>>
    /\ UNCHANGED <<cleanVars, statVars>>

\* The handler's stop_monitoring returns and the exception is re-raised.
HandlerReraises ==
    /\ pc = "join2"
    /\ JoinReturns
    /\ StopSummary
    /\ outcome' = pending
    /\ pending' = NoneRec
    /\ pc' = "done"
    /\ UNCHANGED <<tool, inputExists, procState, stageRc, returnCode, log,
                   spawnCount, monitoring, monPc, lastRead, memory_samples,
                   cpu_samples, stopCalls, loggedLen, payloads, notifyRaised>>
    /\ UNCHANGED <<cleanVars, statVars>>

\* What the post-processing of the alignment file can end in: see SpecClean
\* and SpecStat for the functions themselves.
PostResults(t) ==
    {"ok", "statistics_error"}
        \cup (IF t \in {"vsearch", "uclust"} THEN {"empty_alignment"} ELSE {})

\* run_tool after the with block: clean_align_file for VSEARCH and UCLUST
\* (ValueError when max_length is 0), BlueBase(...).main(), the return.
PostProcess(res) ==
    /\ pc = "post"
    /\ res \in PostResults(tool)
    /\ outcome' =
         CASE res = "ok" ->
                [kind |-> "return", align_file |-> "aln", stat_file |-> "txt",
                 statistic |-> Statistic, resource_usage |-> summary]
           [] res = "empty_alignment" ->
                [kind |-> "raise", type |-> "ValueError"]
           [] res = "statistics_error" ->
                [kind |-> "raise", type |-> "StatisticsError"]
    /\ pc' = "done"
    /\ UNCHANGED <<tool, inputExists, procState, stageRc, returnCode, log,
                   spawnCount, monitoring, monPc, lastRead, memory_samples,
                   cpu_samples, stopCalls, summary, pending, loggedLen,
                   payloads, notifyRaised>>
    /\ UNCHANGED <<cleanVars, statVars>>

\* ------------------------------------------------------------------------
\* ResourceMonitor._monitor_loop (the sampler thread)
\* ------------------------------------------------------------------------
\* Errors of the primary-process read or of the enumeration of descendants
\* that the inner handler (line 137) catches.
PsutilErrors == {"NoSuchProcess", "AccessDenied", "ZombieProcess"}

\* What one cycle's reads can end in. "child_error" is a psutil error
\* raised while reading one descendant; "other" is any other exception.
\* A vanished or zombie primary process needs the shell to have exited.
ReadOutcomes ==
    {"ok", "child_error", "AccessDenied", "other"}
        \cup (IF procState = "exited"
              THEN {"NoSuchProcess", "ZombieProcess"} ELSE {})

\* A faulty variant of AfterRead: an error skips the cycle's sample and the loop goes on.
AfterRead_SkipCycle(r) ==
    IF r \in {"ok", "child_error"} THEN "append_mem" ELSE "sleep"
\* Where the loop goes after the reads of one cycle: a descendant's error
\* is swallowed (pass, line 133-135); an error of the primary process and
\* any other exception leave the loop (break, lines 137-139, 146-151).
AfterRead(r) ==
    IF r \in {"ok", "child_error"} THEN "append_mem" ELSE "done"

\* psutil.Process(self.process.pid), line 113: raises when the pid is gone,
\* which the outer handler (line 153) logs; the thread then ends.
MonInit ==
    /\ monPc = "init"
    /\ \E ok \in (IF procState = "exited" THEN BOOLEAN ELSE {TRUE}) :
         IF ok THEN monPc' = "check" /\ UNCHANGED lastRead
               ELSE monPc' = "done" /\ lastRead' = "init_error"
    /\ UNCHANGED <<tool, inputExists, pc, procState, stageRc, returnCode, log,
                   spawnCount, monitoring, memory_samples, cpu_samples,
                   stopCalls, summary, pending, loggedLen, outcome, payloads,
                   notifyRaised>>
    /\ UNCHANGED <<cleanVars, statVars>>

\* while self.monitoring and self.process.poll() is None (line 115)
MonCheck ==
    /\ monPc = "check"
    /\ \/ /\ monitoring /\ procState # "exited"
          /\ memory_samples < MaxSamples
          /\ monPc' = "read"
       \/ /\ ~(monitoring /\ procState # "exited")
          /\ monPc' = "done"
    /\ UNCHANGED <<tool, inputExists, pc, procState, stageRc, returnCode, log,
                   spawnCount, monitoring, lastRead, memory_samples,
                   cpu_samples, stopCalls, summary, pending, loggedLen,
                   outcome, payloads, notifyRaised>>
    /\ UNCHANGED <<cleanVars, statVars>>

\* Lines 116-139: the reads of the primary process and of its descendants.
MonRead(r) ==
    /\ monPc = "read"
    /\ r \in ReadOutcomes
    /\ lastRead' = r
    /\ monPc' = AfterRead(r)
    /\ UNCHANGED <<tool, inputExists, pc, procState, stageRc, returnCode, log,
                   spawnCount, monitoring, memory_samples, cpu_samples,
                   stopCalls, summary, pending, loggedLen, outcome, payloads,
                   notifyRaised>>
    /\ UNCHANGED <<cleanVars, statVars>>

\* self.memory_samples.append(memory_mb), line 141
MonAppendMem ==
    /\ monPc = "append_mem"
    /\ memory_samples' = memory_samples + 1
    /\ monPc' = "append_cpu"
    /\ UNCHANGED <<tool, inputExists, pc, procState, stageRc, returnCode, log,
                   spawnCount, monitoring, lastRead, cpu_samples, stopCalls,
                   summary, pending, loggedLen, outcome, payloads,
                   notifyRaised>>
    /\ UNCHANGED <<cleanVars, statVars>>

\* self.cpu_samples.append(cpu_percent), line 142
MonAppendCpu ==
    /\ monPc = "append_cpu"
    /\ cpu_samples' = cpu_samples + 1
    /\ monPc' = "sleep"
    /\ UNCHANGED <<tool, inputExists, pc, procState, stageRc, returnCode, log,
                   spawnCount, monitoring, lastRead, memory_samples, stopCalls,
                   summary, pending, loggedLen, outcome, payloads,
                   notifyRaised>>
    /\ UNCHANGED <<cleanVars, statVars>>

\* time.sleep(self.interval), line 144
MonSleep ==
    /\ monPc = "sleep"
    /\ monPc' = "check"
    /\ UNCHANGED <<tool, inputExists, pc, procState, stageRc, returnCode, log,
                   spawnCount, monitoring, lastRead, memory_samples,
                   cpu_samples, stopCalls, summary, pending, loggedLen,
                   outcome, payloads, notifyRaised>>
    /\ UNCHANGED <<cleanVars, statVars>>

\* ------------------------------------------------------------------------
\* Notification producer and the Celery signal handlers
\* ------------------------------------------------------------------------
\* _notify: builds the Response and hands it to _post_webhook. statistic
\* and resource_usage are NoneRec when absent; `statistic.to_dict()` raises
\* AttributeError when the object has no such attribute.
_notify(status, align_file, stat_file, statistic, message, resource_usage) ==
    IF statistic # NoneRec /\ "to_dict" \notin statistic.attrs
    THEN [raised |-> TRUE, payload |-> NoneRec]
    ELSE [raised |-> FALSE,
          payload |-> [kind |-> "Response", status |-> status,
                       align_file |-> align_file, stat_file |-> stat_file,
                       statistic |-> statistic, message |-> message,
                       resource_usage |-> resource_usage]]

\* @signals.task_success.connect
on_success ==
    /\ pc = "done"
    /\ outcome.kind = "return"
    /\ LET n == _notify("SUCCESS", outcome.align_file, outcome.stat_file,
                        outcome.statistic, "None", outcome.resource_usage) IN
        /\ notifyRaised' = n.raised
        /\ payloads' = IF n.raised THEN payloads
                       ELSE Append(payloads, n.payload)
    /\ pc' = "notified"
    /\ UNCHANGED <<tool, inputExists, procState, stageRc, returnCode, log,
                   spawnCount, monitoring, monPc, lastRead, memory_samples,
                   cpu_samples, stopCalls, summary, pending, loggedLen,
                   outcome>>
    /\ UNCHANGED <<cleanVars, statVars>>

\* @signals.task_failure.connect
on_failure ==
    /\ pc = "done"
    /\ outcome.kind = "raise"
    /\ LET n == _notify("ERROR", "None", "None", NoneRec, outcome.type,
                        NoneRec) IN
        /\ notifyRaised' = n.raised
        /\ payloads' = IF n.raised THEN payloads
                       ELSE Append(payloads, n.payload)
    /\ pc' = "notified"
    /\ UNCHANGED <<tool, inputExists, procState, stageRc, returnCode, log,
                   spawnCount, monitoring, monPc, lastRead, memory_samples,
                   cpu_samples, stopCalls, summary, pending, loggedLen,
                   outcome>>
    /\ UNCHANGED <<cleanVars, statVars>>

\* ------------------------------------------------------------------------
\* Specification of run_tool
\* ------------------------------------------------------------------------
Init == InitRun /\ CleanIdle /\ StatIdle

Next ==
    \/ RunToolStart
    \/ \E rc \in ExitCodes, n \in StderrLens : StageRun(rc, n)
    \/ WaitReturns
    \/ AfterFirstStop
    \/ HandlerReraises
    \/ \E res \in {"ok", "statistics_error", "empty_alignment"} :
           PostProcess(res)
    \/ MonInit
    \/ MonCheck
    \/ \E r \in PsutilErrors \cup {"ok", "child_error", "other"} : MonRead(r)
    \/ MonAppendMem
    \/ MonAppendCpu
    \/ MonSleep
    \/ on_success
    \/ on_failure

Spec == Init /\ [][Next]_vars

\* ------------------------------------------------------------------------
\* Claims about run_tool (checked under Spec)
\* ------------------------------------------------------------------------
\* Positions of the sampler thread inside its while loop.
InLoop == {"check", "read", "append_mem", "append_cpu", "sleep"}
\* Read outcomes that leave the loop.
LoopEndingErrors == PsutilErrors \cup {"other"}

\* C1: whenever the process was spawned and an outcome (return value or
\* raised error) has left run_tool, stop_monitoring has been executed
\* exactly once.
C1_StopExactlyOnce ==
    (spawnCount > 0 /\ outcome.kind # "none") => stopCalls = 1

\* C2 (as stated): the sampler loop is left only when the sampler has been
\* told to stop or the primary process has exited; a read error never ends
\* the loop.
C2_LoopExitsOnlyOnStopOrExit ==
    [][(monPc \in InLoop /\ monPc' = "done")
          => (~monitoring \/ procState = "exited")]_vars

\* C2 (amended): an error of one descendant's read is swallowed and the
\* cycle records its sample; an error of the primary process's read or of
\* the enumeration of descendants, or any other exception, ends the loop
\* without recording a sample; the loop is left only when told to stop,
\* when the primary process has exited, or on such an error; once ended,
\* the thread records nothing more.
C2_ErrorEndsLoop ==
    [][/\ (monPc = "read" /\ monPc' # "read" /\ lastRead' = "child_error")
             => monPc' = "append_mem"
       /\ (monPc = "read" /\ monPc' # "read" /\ lastRead' \in LoopEndingErrors)
             => /\ monPc' = "done"
                /\ UNCHANGED <<memory_samples, cpu_samples>>
       /\ (monPc \in InLoop /\ monPc' = "done")
             => \/ ~monitoring
                \/ procState = "exited"
                \/ (monPc = "read" /\ lastRead' \in LoopEndingErrors)
       /\ monPc = "done"
             => /\ monPc' = "done"
                /\ UNCHANGED <<memory_samples, cpu_samples>>]_vars

\* C2 witness: the loop has ended on an access-denied read while the
\* sampler had not been told to stop and the primary process was running.
C2_Witness ==
    /\ monPc = "done" /\ lastRead = "AccessDenied"
    /\ monitoring /\ procState = "running"

\* C3: in the UCLUST plan a stage runs only if the stage before it exited
\* 0; the RuntimeError raised for a failed chain carries the exit code of
\* the first failed stage, and the log it quotes holds the header and the
\* output of the stages up to that one only (of the first stage only when
\* the first stage fails).
C3_ChainStopsAtFirstFailure ==
    tool = "uclust" =>
        /\ \A k \in 2..Len(stageRc) : stageRc[k - 1] = 0
        /\ \A e \in {pending, outcome} :
             (e.kind = "raise" /\ e.type = "RuntimeError") =>
                 \E k \in 1..Len(stageRc) :
                     /\ stageRc[k] # 0
                     /\ \A j \in 1..(k - 1) : stageRc[j] = 0
                     /\ e.rc = stageRc[k]
                     /\ e.logSrc \subseteq 0..k
                     /\ k = Len(stageRc)

\* C3 witness: the first UCLUST stage failed and run_tool raised.
C3_Witness ==
    /\ tool = "uclust" /\ Len(stageRc) = 1 /\ stageRc[1] # 0
    /\ outcome.kind = "raise" /\ outcome.type = "RuntimeError"
    /\ outcome.logSrc = {0, 1}

\* C4: when the input file does not exist, no process is spawned and no
\* sampler is started.
C4_MissingInputNoSpawn ==
    ~inputExists => (spawnCount = 0 /\ monPc = "none")

\* C5: the execution error raised on a non-zero exit carries the exit code
\* and a log excerpt no longer than the fixed prefix length.
C5_BoundedExcerpt ==
    (outcome.kind = "raise" /\ outcome.type = "RuntimeError")
        => (outcome.rc = returnCode /\ outcome.logLen <= LogPrefixLen)

\* C6: once the signal handler of a completed invocation has run, exactly
\* one payload has been handed to the webhook sender: SUCCESS with the
\* files, the Statistic and the resource usage after a return, ERROR with a
\* message after a raise.
C6_OnePayloadPerInvocation ==
    pc = "notified" =>
        /\ Len(payloads) = 1
        /\ outcome.kind = "return" =>
             /\ payloads[1].status = "SUCCESS"
             /\ payloads[1].align_file = outcome.align_file
             /\ payloads[1].stat_file = outcome.stat_file
             /\ payloads[1].statistic = outcome.statistic
             /\ payloads[1].resource_usage = outcome.resource_usage
        /\ outcome.kind = "raise" =>
             /\ payloads[1].status = "ERROR"
             /\ payloads[1].message # "None"

\* ------------------------------------------------------------------------
\* clean_align_file
\* ------------------------------------------------------------------------
\* The id of the synthetic consensus row (lines 299, 305).
Consensus == <<"c", "o", "n", "s", "e", "n", "s", "u", "s">>

\* Ids of the records of a cluster-tool output, with and without the
\* leading marker.
RawIds ==
    {Consensus, <<"*">> \o Consensus, <<"s", "1">>, <<"*", "s", "1">>}

\* Symbols of the sequences of a cluster-tool output.
RawSymbols == {"A", "a", ".", "~", "-"}

\* str.upper() on one character.
Upper(c) ==
    CASE c = "a" -> "A" [] c = "c" -> "C" [] c = "g" -> "G"
      [] c = "t" -> "T" [] c = "n" -> "N" [] OTHER -> c

\* re.sub(r'[.~]', '-', s) on one character.
SubGap(c) == IF c \in {".", "~"} THEN "-" ELSE c

\* s.ljust(n, "-"): s itself when it is n long or longer.
Ljust(s, n) ==
    IF Len(s) >= n THEN s ELSE s \o [i \in 1..(n - Len(s)) |-> "-"]

\* A faulty variant of StripMarker: every id loses its first character.
StripMarker_Always(id) == IF id = <<>> THEN id ELSE Tail(id)
\* Lines 307-309: an id that starts with "*" loses that character.
StripMarker(id) ==
    IF id # <<>> /\ Head(id) = "*" THEN Tail(id) ELSE id

\* Line 311: Seq(re.sub(r'[.~]', '-', str(seq)).ljust(max_length, "-").upper())
CleanSeq(seq, n) ==
    LET subbed == [i \in 1..Len(seq) |-> SubGap(seq[i])]
        padded == Ljust(subbed, n)
    IN  [i \in 1..Len(padded) |-> Upper(padded[i])]

\* Lines 297-301: the longest sequence among the records whose id is not
\* the consensus id, 0 when there is none.
RECURSIVE MaxLength(_)
MaxLength(recs) ==
    IF recs = <<>> THEN 0
    ELSE IF Head(recs).id = Consensus THEN MaxLength(Tail(recs))
    ELSE Max(Len(Head(recs).seq), MaxLength(Tail(recs)))

\* Lines 303-312: the records written to the clean file, in order.
RECURSIVE Rewrite(_, _)
Rewrite(recs, n) ==
    IF recs = <<>> THEN <<>>
    ELSE IF Head(recs).id = Consensus THEN Rewrite(Tail(recs), n)
    ELSE <<[id |-> StripMarker(Head(recs).id),
            seq |-> CleanSeq(Head(recs).seq, n)]>> \o Rewrite(Tail(recs), n)

\* The alignment files clean_align_file is applied to: up to MaxCleanRecs
\* records holding up to MaxCleanChars sequence characters in all.
InitClean ==
    /\ \E n \in 0..MaxCleanRecs :
         \E ids \in [1..n -> RawIds], lens \in [1..n -> 0..MaxCleanChars] :
           /\ SumSeq(lens) <= MaxCleanChars
           /\ \E chars \in [1..SumSeq(lens) -> RawSymbols] :
                alignFile =
                    [i \in 1..n |->
                        [id |-> ids[i],
                         seq |-> [k \in 1..lens[i] |->
                                     chars[SumSeq(SubSeq(lens, 1, i - 1)) + k]]]]
    /\ cleanInput = alignFile
    /\ cleanPc = "ready"
    /\ max_length = -1

\* clean_align_file(align_file): both passes, the replacement of the file
\* by the clean file, and the return of max_length.
clean_align_file ==
    /\ cleanPc = "ready"
    /\ max_length' = MaxLength(alignFile)
    /\ alignFile' = Rewrite(alignFile, MaxLength(alignFile))
    /\ cleanPc' = "done"
    /\ UNCHANGED cleanInput
    /\ UNCHANGED <<runVars, statVars>>

InitCleanSpec == InitClean /\ RunIdle /\ StatIdle

NextClean == clean_align_file

SpecClean == InitCleanSpec /\ [][NextClean]_vars

\* ------------------------------------------------------------------------
\* Claims about clean_align_file (checked under SpecClean)
\* ------------------------------------------------------------------------
\* C7: after clean_align_file, when at least one record is retained (and
\* the alignment is not empty, so that run_tool goes on with it), every row
\* of the rewritten alignment is max_length long and no row's id is the
\* consensus sentinel.
C7_EqualLengthNoConsensus ==
    (cleanPc = "done" /\ Len(alignFile) >= 1 /\ max_length >= 1) =>
        \A i \in 1..Len(alignFile) :
            /\ Len(alignFile[i].seq) = max_length
            /\ alignFile[i].id # Consensus

\* An alignment that is already normalized: no consensus row, no leading
\* marker, no '.' or '~', upper case, one length.
Normalized(recs) ==
    \A i \in 1..Len(recs) :
        /\ recs[i].id # Consensus
        /\ (recs[i].id = <<>> \/ Head(recs[i].id) # "*")
        /\ \A j \in 1..Len(recs[i].seq) :
               /\ recs[i].seq[j] \notin {".", "~"}
               /\ Upper(recs[i].seq[j]) = recs[i].seq[j]
        /\ Len(recs[i].seq) = Len(recs[1].seq)

\* C8: clean_align_file applied to an already-normalized alignment leaves
\* the records, their order, ids and sequences as they were, and returns
\* the uniform length.
C8_NormalizedIsFixpoint ==
    (cleanPc = "done" /\ Normalized(cleanInput)) =>
        /\ alignFile = cleanInput
        /\ Len(cleanInput) >= 1 => max_length = Len(cleanInput[1].seq)

\* C8 witness: a normalized alignment of two rows of length 1 was cleaned.
C8_Witness ==
    /\ cleanPc = "done" /\ Normalized(cleanInput)
    /\ Len(cleanInput) = 2 /\ Len(cleanInput[1].seq) >= 1

\* ------------------------------------------------------------------------
\* BlueBase.align_to_statistics: the per-sequence scan (lines 88-165)
\* ------------------------------------------------------------------------
Nucleotide_common == <<"A", "T", "G", "C">>
CommonSet == {Nucleotide_common[i] : i \in 1..Len(Nucleotide_common)}

\* Lines 89-90: str(record.seq).replace(".", "-").upper()
ParseRow(raw) ==
    [i \in 1..Len(raw) |-> Upper(IF raw[i] = "." THEN "-" ELSE raw[i])]

\* seq[a : b + 1] for 0-based a and b (empty when a > b or out of range).
Slice(seq, a, b) ==
    LET hi == Min(b, Len(seq) - 1)
    IN  IF a > hi THEN <<>> ELSE [k \in 1..(hi - a + 1) |-> seq[a + k]]

\* Lines 95-100: base_start after the forward loop has reached 0-based
\* index i. It is assigned at every non-gap index met while it is still 0.
RECURSIVE BaseStart(_, _, _)
BaseStart(seq, i, bs) ==
    IF i >= Len(seq) THEN bs
    ELSE BaseStart(seq, i + 1,
                   IF seq[i + 1] # "-" /\ bs = 0 THEN i ELSE bs)

\* Lines 121-126: base_end after the backward loop has reached index i.
RECURSIVE BaseEnd(_, _, _)
BaseEnd(seq, i, be) ==
    IF i < 0 THEN be
    ELSE BaseEnd(seq, i - 1,
                 IF seq[i + 1] # "-" /\ be = 0 THEN i ELSE be)

\* Lines 92-116: miss_front_seq, built from index i on.
RECURSIVE MissFront(_, _, _, _)
MissFront(seq, i, miss_front, miss_continue) ==
    IF i >= Len(seq) THEN <<>>
    ELSE IF miss_continue
         THEN <<"|">> \o MissFront(seq, i + 1, miss_front, TRUE)
    ELSE IF i = 0 /\ seq[i + 1] = "-"
         THEN <<"*">> \o MissFront(seq, i + 1, miss_front + 1, FALSE)
    ELSE IF i = 0 /\ seq[i + 1] # "-"
         THEN <<"|">> \o MissFront(seq, i + 1, miss_front, TRUE)
    ELSE IF i # 0 /\ seq[i + 1] # "-"
         THEN <<"|">> \o MissFront(seq, i + 1, miss_front, TRUE)
    ELSE IF miss_front # 0 /\ seq[i + 1] = "-"
         THEN <<"*">> \o MissFront(seq, i + 1, miss_front + 1, FALSE)
    ELSE MissFront(seq, i + 1, miss_front, FALSE)

\* Lines 118-141: miss_end_seq, built from index i down.
RECURSIVE MissEnd(_, _, _, _)
MissEnd(seq, i, miss_end, miss_continue) ==
    LET last == Len(seq) - 1 IN
    IF i < 0 THEN <<>>
    ELSE IF miss_continue
         THEN MissEnd(seq, i - 1, miss_end, TRUE) \o <<"|">>
    ELSE IF i = last /\ seq[i + 1] = "-"
         THEN MissEnd(seq, i - 1, miss_end + 1, FALSE) \o <<"*">>
    ELSE IF i = last /\ seq[i + 1] # "-"
         THEN MissEnd(seq, i - 1, miss_end, TRUE) \o <<"|">>
    ELSE IF i # last /\ seq[i + 1] # "-"
         THEN MissEnd(seq, i - 1, miss_end, TRUE) \o <<"|">>
    ELSE IF miss_end # 0 /\ seq[i + 1] = "-"
         THEN MissEnd(seq, i - 1, miss_end + 1, FALSE) \o <<"*">>
    ELSE MissEnd(seq, i - 1, miss_end, FALSE)

\* Lines 147-158: gap_starts and gap_ends of nomissgap_seq, from index n
\* on with the loop's flag.
RECURSIVE GapBounds(_, _, _)
GapBounds(core, n, flag) ==
    IF n >= Len(core) THEN [starts |-> <<>>, ends |-> <<>>]
    ELSE IF core[n + 1] = "-"
         THEN LET rest == GapBounds(core, n + 1, 1)
              IN  IF flag = 0
                  THEN [rest EXCEPT !.starts = <<n>> \o @]
                  ELSE rest
         ELSE LET rest == GapBounds(core, n + 1, 0)
              IN  IF flag = 1
                  THEN [rest EXCEPT !.ends = <<n>> \o @]
                  ELSE rest

\* Lines 161-165: the lengths gap_ends[g] - gap_starts[g] summed.
RECURSIVE SumRunLengths(_, _, _)
SumRunLengths(starts, ends, g) ==
    IF g > Len(starts) THEN 0
    ELSE (ends[g] - starts[g]) + SumRunLengths(starts, ends, g + 1)

\* Lines 92-165 for one record: what it adds to the totals; IndexError
\* when gap_ends is shorter than gap_starts (line 163).
ScanRecord(seq) ==
    LET base_start == BaseStart(seq, 0, 0)
        base_end == BaseEnd(seq, Len(seq) - 1, 0)
        nomissgap_seq == Slice(seq, base_start, base_end)
        hasGap == \E n \in 1..Len(nomissgap_seq) : nomissgap_seq[n] = "-"
        gb == GapBounds(nomissgap_seq, 0, 0)
    IN  [miss_front_seq |-> MissFront(seq, 0, 0, FALSE),
         miss_end_seq |-> MissEnd(seq, Len(seq) - 1, 0, FALSE),
         gap_seq |-> IF hasGap THEN 1 ELSE 0,
         gaps |-> IF hasGap THEN Len(gb.starts) ELSE 0,
         error |-> IF hasGap /\ Len(gb.ends) < Len(gb.starts)
                   THEN "IndexError" ELSE "none",
         sumlength |-> IF hasGap /\ Len(gb.ends) >= Len(gb.starts)
                       THEN SumRunLengths(gb.starts, gb.ends, 1) ELSE 0]

\* The loop of lines 88-165 over the records lo..hi, in order (taken by
\* halves); it ends at the first record that raises.
RECURSIVE ScanRange(_, _, _, _)
ScanRange(rows, lo, hi, acc) ==
    IF lo > hi \/ acc.error # "none" THEN acc
    ELSE IF lo = hi
    THEN LET rec == ScanRecord(rows[lo])
         IN  [acc EXCEPT
                !.miss_front_list = Append(@, rec.miss_front_seq),
                !.miss_end_list = Append(@, rec.miss_end_seq),
                !.gap_seq_count = @ + rec.gap_seq,
                !.gap_count = @ + rec.gaps,
                !.gap_sumlength = @ + rec.sumlength,
                !.error = rec.error]
    ELSE LET mid == (lo + hi) \div 2
         IN  ScanRange(rows, mid + 1, hi, ScanRange(rows, lo, mid, acc))

\* The loop of lines 88-165 over the records from index r on.
ScanAll(rows, r, acc) == ScanRange(rows, r, Len(rows), acc)

\* ------------------------------------------------------------------------
\* BlueBase.align_to_statistics: the column pass (lines 175-294)
\* ------------------------------------------------------------------------
\* Number of entries of data equal to c (Counter(data)[c], data.count(c)).
Count(data, c) == Cardinality({j \in 1..Len(data) : data[j] = c})

\* Lines 223-233 and 242-254: the symbols whose counts etc_count sums.
EtcSymbols == {"Y", "R", "W", "S", "K", "M", "D", "V", "H", "B", "N"}

\* A faulty variant of DEG_list: the ambiguity letter N is not removed.
DEG_list_KeepsN ==
    <<"Y", "R", "W", "K", "S", "M", "D", "V", "H", "B", "-", ".">>
\* Line 25: the symbols removed from a column's distinct symbols.
DEG_list ==
    <<"Y", "R", "W", "K", "S", "M", "N", "D", "V", "H", "B", "-", ".">>

\* The characters of the model in the order list.sort() puts them.
CharOrder ==
    <<"*", "-", ".", "A", "B", "C", "D", "G", "H", "K", "M", "N", "R", "S",
      "T", "V", "W", "Y", "|">>

\* Nucleotide_IUPAC_code[temp]; KeyError when temp is no key.
Nucleotide_IUPAC_code(temp) ==
    CASE temp = <<"A">> -> "A"
      [] temp = <<"G">> -> "G"
      [] temp = <<"C">> -> "C"
      [] temp = <<"T">> -> "T"
      [] temp = <<"C", "T">> -> "Y"
      [] temp = <<"A", "G">> -> "R"
      [] temp = <<"A", "T">> -> "W"
      [] temp = <<"G", "T">> -> "K"
      [] temp = <<"C", "G">> -> "S"
      [] temp = <<"A", "C">> -> "M"
      [] temp = <<"A", "G", "T">> -> "D"
      [] temp = <<"A", "C", "G">> -> "V"
      [] temp = <<"A", "C", "T">> -> "H"
      [] temp = <<"C", "G", "T">> -> "B"
      [] temp = <<>> -> "None"
      [] temp = <<"A", "C", "G", "T">> -> "X"
      [] OTHER -> "KeyError"

\* Python's round(num / den * 100) for 0 <= num <= den, den > 0: to the
\* nearest integer, a half to the even one.
RoundPercent(num, den) ==
    LET q == (100 * num) \div den
        r == (100 * num) % den
    IN  IF 2 * r < den THEN q
        ELSE IF 2 * r > den THEN q + 1
        ELSE IF q % 2 = 0 THEN q ELSE q + 1

\* Lines 202-214: data, the column's symbols ("-" for a row too short).
ColumnData(rows, i) ==
    [j \in 1..Len(rows) |-> IF i <= Len(rows[j]) THEN rows[j][i] ELSE "-"]

\* A faulty variant of NotGapData: every symbol of the column votes.
NotGapData_AllSymbols(data) == data
\* Lines 204-205: not_gap_data, the column's canonical bases in row order.
NotGapData(data) == SelectSeq(data, LAMBDA x : x \in CommonSet)

\* Counter(not_gap_data).most_common(1)[0]: the first symbol, in order of
\* first occurrence, whose count is the largest.
MostCommon(nd) ==
    LET k == CHOOSE k \in 1..Len(nd) :
                 /\ \A m \in 1..Len(nd) : Count(nd, nd[m]) <= Count(nd, nd[k])
                 /\ \A m \in 1..(k - 1) : Count(nd, nd[m]) < Count(nd, nd[k])
    IN  [base |-> nd[k], count |-> Count(nd, nd[k])]

\* Lines 206-211 and 234: the rows whose position i is leading or trailing
\* missing data.
MissCount(mfl, mel, i) ==
    Cardinality({j \in 1..Len(mfl) :
        /\ i <= Len(mfl[j]) /\ i <= Len(mel[j])
        /\ \/ (mfl[j][i] = "*" /\ mel[j][i] = "|")
           \/ (mfl[j][i] = "|" /\ mel[j][i] = "*")})

RECURSIVE SumCounts(_, _)
SumCounts(data, syms) ==
    IF syms = {} THEN 0
    ELSE LET c == CHOOSE c \in syms : TRUE
         IN  Count(data, c) + SumCounts(data, syms \ {c})

Max4(a, b, c, d) == Max(Max(a, b), Max(c, d))

\* Lines 198-294 for column i (1-based).
Column(rows, mfl, mel, i) ==
    LET data == ColumnData(rows, i)
        not_gap_data == NotGapData(data)
        a_count == Count(data, "A")
        t_count == Count(data, "T")
        g_count == Count(data, "G")
        c_count == Count(data, "C")
        miss_count == MissCount(mfl, mel, i)
        major == IF Len(not_gap_data) # 0 THEN MostCommon(not_gap_data)
                 ELSE [base |-> "-", count |-> 0]
        etc_count == SumCounts(data, EtcSymbols)
        miss_gap_count == Count(data, "-") + Count(data, ".")
        total_count == a_count + t_count + g_count + c_count + etc_count
                           + miss_gap_count
        distinct == {data[j] : j \in 1..Len(data)}
        degs == {DEG_list[k] : k \in 1..Len(DEG_list)}
        temp == SelectSeq(CharOrder, LAMBDA ch : ch \in distinct \ degs)
        unordered == distinct \ {CharOrder[k] : k \in 1..Len(CharOrder)}
        iupac == IF unordered # {} THEN "KeyError"
                 ELSE Nucleotide_IUPAC_code(temp)
    IN  IF total_count = 0
        THEN [error |-> "ZeroDivisionError"]
        ELSE IF iupac = "KeyError"
        THEN [error |-> "KeyError"]
        ELSE [error |-> "none",
              a_count |-> a_count, t_count |-> t_count,
              g_count |-> g_count, c_count |-> c_count,
              etc_count |-> etc_count, miss_count |-> miss_count,
              miss_gap_count |-> miss_gap_count,
              real_gap_count |-> miss_gap_count - miss_count,
              total_count |-> total_count,
              a_freq |-> RoundPercent(a_count, total_count),
              t_freq |-> RoundPercent(t_count, total_count),
              g_freq |-> RoundPercent(g_count, total_count),
              c_freq |-> RoundPercent(c_count, total_count),
              iupac_bases |-> iupac,
              max_nucleotide |-> major.base,
              num_max_nucleotide |-> major.count,
              freq_max |-> Max4(RoundPercent(a_count, total_count),
                                RoundPercent(t_count, total_count),
                                RoundPercent(g_count, total_count),
                                RoundPercent(c_count, total_count))]

\* ------------------------------------------------------------------------
\* BlueBase.align_to_statistics: the blue-base pass (lines 296-327)
\* ------------------------------------------------------------------------
pctid_cutoff == <<90, 80, 70, 60, 50, 40>>

\* A faulty variant of Ladder: the top band is half-open like the others.
Ladder_HalfOpenTop(f) ==
    SelectSeq(pctid_cutoff, LAMBDA p : p + 10 > f /\ f >= p)
        \o (IF f < 40 THEN <<40>> ELSE <<>>)
\* Lines 306-322: the buckets incremented for one matching occurrence in a
\* column of majority frequency f, in the order of the increments.
Ladder(f) ==
    LET hit(c) == IF c = 1 THEN pctid_cutoff[c] + 10 >= f /\ f >= pctid_cutoff[c]
                  ELSE pctid_cutoff[c] + 10 > f /\ f >= pctid_cutoff[c]
        inLoop == SelectSeq(pctid_cutoff,
                            LAMBDA p : \E c \in 1..Len(pctid_cutoff) :
                                           pctid_cutoff[c] = p /\ hit(c))
    IN  inLoop \o (IF f < 40 THEN <<40>> ELSE <<>>)

\* blue_base_count after the increments of incs.
RECURSIVE Bump(_, _)
Bump(bbc, incs) ==
    IF incs = <<>> THEN bbc
    ELSE LET p == Head(incs)
             next == IF p \in DOMAIN bbc
                     THEN [bbc EXCEPT ![p] = @ + 1]
                     ELSE bbc @@ (p :> 1)
         IN  Bump(next, Tail(incs))

\* Lines 298-325: the inner loop over the positions of one row (from
\* position j on).
RECURSIVE BlueRow(_, _, _, _)
BlueRow(row, bp, j, acc) ==
    IF j > Len(row) THEN acc
    ELSE LET sym == row[j]
             a1 == IF sym # "-"
                   THEN [acc EXCEPT !.nomiss_base_count = @ + 1] ELSE acc
             a2 == IF sym = bp[j][1]
                   THEN [a1 EXCEPT !.blue_base_count = Bump(@, Ladder(bp[j][2]))]
                   ELSE IF sym # "-"
                        THEN [a1 EXCEPT !.noblue_base_count = @ + 1]
                        ELSE a1
         IN  BlueRow(row, bp, j + 1, a2)

\* Line 301: the outer loop over the rows lo..hi, in order (taken by
\* halves).
RECURSIVE BlueRange(_, _, _, _, _)
BlueRange(rows, bp, lo, hi, acc) ==
    IF lo > hi \/ acc.error # "none" THEN acc
    ELSE IF lo = hi THEN BlueRow(rows[lo], bp, 1, acc)
    ELSE LET mid == (lo + hi) \div 2
         IN  BlueRange(rows, bp, mid + 1, hi,
                       BlueRange(rows, bp, lo, mid, acc))

\* Lines 301-325: the loops over the rows from index r on.
BluePass(rows, bp, r, acc) == BlueRange(rows, bp, r, Len(rows), acc)

\* sum(blue_base_count.values())
RECURSIVE SumValues(_)
SumValues(bbc) ==
    IF DOMAIN bbc = {} THEN 0
    ELSE LET p == CHOOSE p \in DOMAIN bbc : TRUE
         IN  bbc[p] + SumValues([q \in DOMAIN bbc \ {p} |-> bbc[q]])

\* ------------------------------------------------------------------------
\* Specification of align_to_statistics
\* ------------------------------------------------------------------------
\* Symbols of a normalized alignment: the canonical bases, an ambiguity
\* letter and the gap symbol.
StatSymbols == CommonSet \cup {"N", "-"}

\* Alignments of the repository's description, beside the enumerated ones:
\* the sequence "AA--A--AA"; a column of eight rows (the percentages fall
\* on a half); a row as the tool writes it, before lines 89-90; columns
\* with all four bases, with ambiguity letters and a gap only, and with
\* two bases; three rows of length 5, one column split 2-1 and the others
\* unanimous; ten rows whose six columns fall in the six identity bands.
ExampleAlignments ==
    {<< <<"A", "A", "-", "-", "A", "-", "-", "A", "A">> >>,
     << <<"A", "R", "A">>, <<"C", "Y", "G">>, <<"G", "N", "A">>,
        <<"T", "-", "G">> >>,
     << <<"A">>, <<"A">>, <<"A">>, <<"T">>, <<"T">>, <<"T">>, <<"T">>,
        <<"T">> >>,
     << <<"a", ".", "t">>, <<"A", "N", "T">> >>,
     << <<"A", "A", "C", "G", "T">>, <<"A", "A", "C", "G", "T">>,
        <<"A", "T", "C", "G", "T">> >>,
     [j \in 1..10 |-> [c \in 1..6 |->
         IF j <= <<10, 8, 7, 6, 5, 4>>[c] THEN "A" ELSE "N"]]}

\* The alignment files the engine is applied to: every matrix of n rows
\* and l columns with n * l <= MaxCells over StatSymbols (no row, rows of
\* length 0 included), and the examples.
InitStat ==
    /\ \/ \E n \in 0..MaxCells, l \in 0..MaxCells :
            /\ n * l <= MaxCells
            /\ n = 0 => l = 0
            /\ \E m \in [1..n -> [1..l -> StatSymbols]] :
                 fasta_list = [j \in 1..n |-> ParseRow(m[j])]
       \/ \E m \in ExampleAlignments :
            fasta_list = [j \in 1..Len(m) |-> ParseRow(m[j])]
    /\ statPc = "scan"
    /\ st = StatZero

\* Lines 80-173: the loop over the records.
ScanSequences ==
    /\ statPc = "scan"
    /\ st' = ScanAll(fasta_list, 1, st)
    /\ statPc' = IF st'.error = "none" THEN "columns" ELSE "error"
    /\ UNCHANGED fasta_list
    /\ UNCHANGED <<runVars, cleanVars>>

\* Lines 175-294: fasta_list[0] (IndexError without rows) and the loop
\* over the columns.
ColumnPass ==
    /\ statPc = "columns"
    /\ IF Len(fasta_list) = 0
       THEN st' = [st EXCEPT !.error = "IndexError"]
       ELSE LET sequence_length == Len(fasta_list[1])
                cols == [i \in 1..sequence_length |->
                            Column(fasta_list, st.miss_front_list,
                                   st.miss_end_list, i)]
                bad == {i \in 1..sequence_length : cols[i].error # "none"}
            IN  IF bad # {}
                THEN st' = [st EXCEPT !.error =
                               cols[CHOOSE i \in bad :
                                        \A k \in bad : i <= k].error]
                ELSE st' = [st EXCEPT
                              !.columns = cols,
                              !.bp_color = [i \in 1..sequence_length |->
                                  <<cols[i].max_nucleotide, cols[i].freq_max>>]]
    /\ statPc' = IF st'.error = "none" THEN "blue" ELSE "error"
    /\ UNCHANGED fasta_list
    /\ UNCHANGED <<runVars, cleanVars>>

\* Lines 296-327: the blue-base loops and the ratio (ZeroDivisionError when
\* nomiss_base_count is 0).
BlueBasePass ==
    /\ statPc = "blue"
    /\ LET acc == BluePass(fasta_list, st.bp_color, 1, st)
       IN  st' = IF acc.nomiss_base_count = 0
                 THEN [acc EXCEPT !.error = "ZeroDivisionError"]
                 ELSE acc
    /\ statPc' = IF st'.error = "none" THEN "done" ELSE "error"
    /\ UNCHANGED fasta_list
    /\ UNCHANGED <<runVars, cleanVars>>

\* Lines 57-77 of get_statistics, after align_to_statistics returned: the
\* dict over the six cutoffs (KeyError for a cutoff that is no key of
\* blue_base_count) and the Statistic. Quotients are <<numerator,
\* denominator>>.
get_statistics ==
    /\ statPc = "done"
    /\ LET pct_id_cutoff == {pctid_cutoff[i] : i \in 1..Len(pctid_cutoff)}
           gap_freq == IF st.gap_seq_count = 0 THEN <<0, 1>>
                       ELSE <<st.gap_count, st.gap_seq_count>>
           gap_avg_length == IF st.gap_seq_count = 0 THEN <<0, 1>>
                             ELSE <<st.gap_sumlength, st.gap_seq_count>>
       IN  IF ~(pct_id_cutoff \subseteq DOMAIN st.blue_base_count)
           THEN st' = [st EXCEPT !.error = "KeyError"]
           ELSE st' = [st EXCEPT !.statistic =
                    [kind |-> "Statistic",
                     total_seq |-> Len(fasta_list),
                     gap_seq_count |-> st.gap_seq_count,
                     gap_count |-> st.gap_count,
                     gap_frequency |-> gap_freq,
                     gap_sum_length |-> st.gap_sumlength,
                     gap_length |-> gap_avg_length,
                     sum_of_blue_bases |-> SumValues(st.blue_base_count),
                     no_blue_bases |-> st.noblue_base_count,
                     no_miss_bases |-> st.nomiss_base_count,
                     blue_base_ratio |-> <<SumValues(st.blue_base_count),
                                           st.nomiss_base_count>>,
                     blue_base_count |-> [p \in pct_id_cutoff |->
                                             st.blue_base_count[p]]]]
    /\ statPc' = IF st'.error = "none" THEN "returned" ELSE "error"
    /\ UNCHANGED fasta_list
    /\ UNCHANGED <<runVars, cleanVars>>

NextStat == ScanSequences \/ ColumnPass \/ BlueBasePass \/ get_statistics

InitStatSpec == InitStat /\ RunIdle /\ CleanIdle

SpecStat == InitStatSpec /\ [][NextStat]_vars

\* ------------------------------------------------------------------------
\* Claims about align_to_statistics (checked under SpecStat)
\* ------------------------------------------------------------------------
HasRealBase(row) == \E i \in 1..Len(row) : row[i] # "-"

\* The maximal spans <<a, b>> of gap symbols of row that lie strictly
\* between its first and its last non-gap symbol.
InternalRuns(row) ==
    {ab \in (1..Len(row)) \X (1..Len(row)) :
        /\ ab[1] <= ab[2]
        /\ \A k \in ab[1]..ab[2] : row[k] = "-"
        /\ ab[1] > 1 /\ row[ab[1] - 1] # "-"
        /\ ab[2] < Len(row) /\ row[ab[2] + 1] # "-"}

\* Gap symbols of row strictly between its first and last non-gap symbol.
InternalGaps(row) ==
    {k \in 1..Len(row) :
        /\ row[k] = "-"
        /\ \E a \in 1..(k - 1) : row[a] # "-"
        /\ \E b \in (k + 1)..Len(row) : row[b] # "-"}

\* C9: when every sequence holds a real base, gap_count is the number of
\* maximal spans of gap symbols strictly between each sequence's first and
\* last non-gap symbol, gap_sum_length the number of gap symbols in them,
\* and gap_seq_count the number of sequences with such a span.
C9_GapRunsAreInternalSpans ==
    (/\ statPc \in {"columns", "blue", "done"}
     /\ \A r \in 1..Len(fasta_list) : HasRealBase(fasta_list[r])) =>
        /\ st.gap_count =
             SumSeq([r \in 1..Len(fasta_list) |->
                        Cardinality(InternalRuns(fasta_list[r]))])
        /\ st.gap_sumlength =
             SumSeq([r \in 1..Len(fasta_list) |->
                        Cardinality(InternalGaps(fasta_list[r]))])
        /\ st.gap_seq_count =
             SumSeq([r \in 1..Len(fasta_list) |->
                        IF InternalRuns(fasta_list[r]) # {} THEN 1 ELSE 0])

\* C10: in every column of a normalized alignment the majority base is a
\* canonical base whose count is the largest among the canonical bases
\* (never an ambiguity symbol or the gap), present exactly when the column
\* holds a canonical base, and the majority frequency is that count over
\* the column's total count (one symbol per row) as a percentage, rounded
\* to a nearest integer; without a canonical base the engine records no
\* majority ("-", count 0, frequency 0).
C10_MajorityVote ==
    statPc \in {"blue", "done"} =>
        \A i \in 1..Len(st.columns) :
            LET col == st.columns[i]
                data == [j \in 1..Len(fasta_list) |-> fasta_list[j][i]]
                n(b) == Cardinality({j \in 1..Len(data) : data[j] = b})
                total == Len(fasta_list)
            IN  /\ col.total_count = total
                /\ IF \E b \in {"A", "T", "G", "C"} : n(b) > 0
                   THEN /\ col.max_nucleotide \in {"A", "T", "G", "C"}
                        /\ \A b \in {"A", "T", "G", "C"} :
                               n(b) <= n(col.max_nucleotide)
                        /\ col.num_max_nucleotide = n(col.max_nucleotide)
                        /\ st.bp_color[i][1] = col.max_nucleotide
                        /\ LET d == 100 * n(col.max_nucleotide)
                                        - col.freq_max * total
                           IN  2 * d <= total /\ -2 * d <= total
                        /\ st.bp_color[i][2] = col.freq_max
                   ELSE /\ col.max_nucleotide = "-"
                        /\ col.num_max_nucleotide = 0
                        /\ col.freq_max = 0

\* C10 witness: a column with A=3 and T=1 of 4 has majority A at 75.
C10_Witness ==
    /\ statPc = "done"
    /\ \E i \in 1..Len(st.columns) :
         /\ st.columns[i].a_count = 3 /\ st.columns[i].t_count = 1
         /\ st.columns[i].total_count = 4
         /\ st.columns[i].max_nucleotide = "A"
         /\ st.columns[i].freq_max = 75

\* ------------------------------------------------------------------------
\* Specification of align_to_statistics on one-column alignments
\* ------------------------------------------------------------------------
\* One column of BucketRows rows: k rows "A" and the others "N", so that
\* the majority frequency takes every value the row count allows.
InitBucket ==
    /\ \E k \in 0..BucketRows :
         fasta_list = [j \in 1..BucketRows |->
                          IF j <= k THEN <<"A">> ELSE <<"N">>]
    /\ statPc = "scan"
    /\ st = StatZero

InitBucketSpec == InitBucket /\ RunIdle /\ CleanIdle

SpecBucket == InitBucketSpec /\ [][NextStat]_vars

\* The identity bucket of a majority frequency f.
BucketOf(f) ==
    IF f >= 90 THEN 90
    ELSE IF f >= 80 THEN 80
    ELSE IF f >= 70 THEN 70
    ELSE IF f >= 60 THEN 60
    ELSE IF f >= 50 THEN 50
    ELSE 40

\* Occurrences in column i that equal the column's majority base.
Matching(i) ==
    Cardinality({j \in 1..Len(fasta_list) :
                    /\ fasta_list[j][i] \in {"A", "T", "G", "C"}
                    /\ fasta_list[j][i] = st.columns[i].max_nucleotide})

\* C11: the occurrences that match the majority base of a column of
\* majority frequency f are all tallied in one bucket, the one of f:
\* [90,100] -> 90, [80,90) -> 80, [70,80) -> 70, [60,70) -> 60,
\* [50,60) -> 50, below 50 -> 40; no other bucket is incremented.
C11_OneBucketPerFrequency ==
    (statPc = "done" /\ Len(st.columns) = 1 /\ Matching(1) > 0) =>
        LET f == st.columns[1].freq_max IN
            /\ f \in 0..100
            /\ DOMAIN st.blue_base_count = {BucketOf(f)}
            /\ st.blue_base_count[BucketOf(f)] = Matching(1)

\* C11 witness: the boundary frequencies 90, 89, 40 and 39 of the claim
\* are met; here 89 of 100 matching occurrences fall in bucket 80.
C11_Witness ==
    /\ statPc = "done" /\ Len(st.columns) = 1
    /\ st.columns[1].freq_max \in {89, 90, 39, 40}
    /\ Matching(1) > 0
    /\ DOMAIN st.blue_base_count = {BucketOf(st.columns[1].freq_max)}

\* ------------------------------------------------------------------------
\* Claim about the IUPAC code of a column (checked under SpecStat)
\* ------------------------------------------------------------------------
\* The distinct canonical bases of column i of the alignment.
BasesOf(i) == {fasta_list[j][i] : j \in 1..Len(fasta_list)} \cap CommonSet

\* The key of a set of canonical bases: its members in sorted order.
KeyOf(S) == SelectSeq(<<"A", "C", "G", "T">>, LAMBDA b : b \in S)

\* The symbols a column of a normalized alignment can hold.
ColumnSymbols ==
    CommonSet \cup {"R", "Y", "S", "W", "K", "M", "B", "D", "H", "V", "N"}
              \cup {"-", "."}

InScope ==
    \A j \in 1..Len(fasta_list) : \A i \in 1..Len(fasta_list[j]) :
        fasta_list[j][i] \in ColumnSymbols

\* C12: for every column of canonical bases, ambiguity letters and gaps the
\* IUPAC code emitted is the table's value for the set of distinct
\* canonical bases of the column; the lookup never misses a key; {A,G}
\* gives R, {A,C,G,T} gives X and the empty set gives "None".
C12_IupacOfBaseSet ==
    InScope =>
        /\ ~(st.error = "KeyError" /\ st.columns = <<>>)
        /\ \A i \in 1..Len(st.columns) :
              LET code == st.columns[i].iupac_bases IN
                  /\ code = Nucleotide_IUPAC_code(KeyOf(BasesOf(i)))
                  /\ code # "KeyError"
                  /\ BasesOf(i) = {"A", "G"} => code = "R"
                  /\ BasesOf(i) = CommonSet => code = "X"
                  /\ BasesOf(i) = {} => code = "None"

C12_Witness ==
    /\ statPc = "done" /\ InScope
    /\ Len(st.columns) = 3
    /\ BasesOf(1) = CommonSet /\ st.columns[1].iupac_bases = "X"
    /\ BasesOf(2) = {} /\ st.columns[2].iupac_bases = "None"
    /\ "N" \in {fasta_list[j][2] : j \in 1..Len(fasta_list)}
    /\ BasesOf(3) = {"A", "G"} /\ st.columns[3].iupac_bases = "R"

\* ------------------------------------------------------------------------
\* Claim about get_statistics (checked under SpecStat)
\* ------------------------------------------------------------------------
\* The occurrences (row, column) of a canonical base equal to its column's
\* majority base.
MajorityMatches ==
    {ji \in (1..Len(fasta_list)) \X (1..Len(st.columns)) :
        /\ fasta_list[ji[1]][ji[2]] \in CommonSet
        /\ fasta_list[ji[1]][ji[2]] = st.columns[ji[2]].max_nucleotide}

\* The occurrences of a symbol that is no gap.
NonMissing ==
    {ji \in (1..Len(fasta_list)) \X (1..Len(st.columns)) :
        fasta_list[ji[1]][ji[2]] # "-"}

\* A normalized alignment of at least one row, the rows of equal length,
\* each with at least one real base.
NormalizedAlignment ==
    /\ Len(fasta_list) >= 1
    /\ \A j \in 1..Len(fasta_list) :
          /\ Len(fasta_list[j]) = Len(fasta_list[1])
          /\ \A i \in 1..Len(fasta_list[j]) :
                fasta_list[j][i] \in ColumnSymbols \ {"."}
          /\ \E i \in 1..Len(fasta_list[j]) :
                fasta_list[j][i] \in CommonSet

\* C13: on a normalized alignment with real bases get_statistics returns
\* a Statistic; its blue_base_count maps each of the six thresholds to the
\* number of occurrences of that bucket (zero if none) and its
\* blue_base_ratio is (occurrences matching their column's majority) over
\* (non-missing occurrences).
C13_GetStatisticsReturns ==
    (NormalizedAlignment /\ statPc \in {"returned", "error"}) =>
        /\ statPc = "returned"
        /\ st.statistic.blue_base_count =
              [p \in {90, 80, 70, 60, 50, 40} |->
                  Cardinality({ji \in MajorityMatches :
                      BucketOf(st.columns[ji[2]].freq_max) = p})]
        /\ st.statistic.blue_base_ratio =
              <<Cardinality(MajorityMatches), Cardinality(NonMissing)>>

\* ------------------------------------------------------------------------
\* Claim about degenerate matrices (checked under SpecStat)
\* ------------------------------------------------------------------------
\* A matrix without rows, with rows of length 0, or without any non-gap
\* symbol.
Degenerate ==
    \/ Len(fasta_list) = 0
    \/ \A j \in 1..Len(fasta_list) : Len(fasta_list[j]) = 0
    \/ \A j \in 1..Len(fasta_list) : \A i \in 1..Len(fasta_list[j]) :
          fasta_list[j][i] \in {"-", "."}

\* C14: on a degenerate matrix (no rows, rows of length 0, no non-missing
\* base) the engine never divides by zero and never returns a Statistic.
C14_DegenerateNeverDividesByZero ==
    Degenerate =>
        /\ st.error # "ZeroDivisionError"
        /\ statPc # "returned"
        /\ st.statistic = NoneRec

\* ------------------------------------------------------------------------
\* Claim about the blue-base pass (checked under SpecStat)
\* ------------------------------------------------------------------------
\* C15: after the blue-base pass over a normalized alignment every non-gap
\* occurrence is counted once, as blue or as non-blue, and no gap is
\* counted: the buckets sum to the occurrences of a canonical base equal
\* to its column's majority, sum_of_blue_bases + no_blue_bases =
\* no_miss_bases, and the blue-base ratio is at most 1.
C15_BluePlusNonBlueIsNonMissing ==
    (statPc = "done"
       /\ \A j \in 1..Len(fasta_list) : \A i \in 1..Len(fasta_list[j]) :
             fasta_list[j][i] \in ColumnSymbols \ {"."}) =>
        /\ SumValues(st.blue_base_count) = Cardinality(MajorityMatches)
        /\ SumValues(st.blue_base_count) + st.noblue_base_count
              = st.nomiss_base_count
        /\ st.nomiss_base_count = Cardinality(NonMissing)
        /\ SumValues(st.blue_base_count) <= st.nomiss_base_count

\* ------------------------------------------------------------------------
\* Claim about stop_monitoring and the sampler thread (checked under Spec)
\* ------------------------------------------------------------------------
\* C16: when stop_monitoring computes the ResourceUsage the sampler thread
\* has ended and appends nothing afterwards: the two sample lists have the
\* same length at that moment and keep it, in every interleaving, also
\* when join(timeout) returns during a sample cycle.
C16_SummaryAfterSamplerEnded ==
    summary.kind = "ResourceUsage" =>
        /\ summary.threadDone
        /\ summary.mem = summary.cpu
        /\ memory_samples = summary.mem
        /\ cpu_samples = summary.cpu

====
